---------------------------- MODULE Spec2Model ----------------------------
(***************************************************************************)
(* Model of tcutils/kubernetes/api_client.py: the retry_on_api_exception   *)
(* decorator and Client.init_clients.  One caller issues wrapped calls on  *)
(* one Client, one after the other.  Each statement of wrapper and of      *)
(* init_clients is one step, pc is the caller's position.  SpecConc adds a *)
(* second caller on the same Client; SpecApi models the Client methods     *)
(* create_namespace, get_replica_set, delete_replica_set and               *)
(* set_label_for_hbf_nodes.                                                *)
(***************************************************************************)
EXTENDS Naturals, Sequences, FiniteSets

\* ---- bounds of the model ----
MaxTries == 3
MaxDelay == 2
MaxCalls == 2

\* ---- program constants ----
\* tries = kwargs.get('tries', 5) and delay = kwargs.get('delay', 5)
DefaultTries == 5
DefaultDelay == 5
\* @retry_on_api_exception("init_clients", tries=5, delay=5)
ExecTries == 5
ExecDelay == 5

\* ---- values ----
\* The four handles init_clients assigns, in the order it assigns them.
HandleNames == {"res_v1_obj_h", "v1_h", "v1_networking", "apps_v1_h"}

\* Values the wrapped operation may return.
Results == {"r1", "r2"}

\* Exception types the operation (or read_namespace) may raise.
ExcTypes == {"ApiException", "Exception"}

\* What an exception of a type may report: an ApiException carries the
\* failure the API client met (no connection) or the server's answer.
Reasons(type) ==
    IF type = "ApiException" THEN {"ConnectionError", "NotFound"} ELSE {"none"}

\* The arguments retry_on_api_exception(*args, **kwargs) may be given.
DecoKeys == {"tries", "delay"}
TriesVals == (0..MaxTries) \cup {ExecTries}
DelayVals == (0..MaxDelay) \cup {ExecDelay}
Decorations ==
    {d \in [args : {<<>>, <<"init_clients">>},
            kwargs : UNION {[D -> TriesVals \cup DelayVals] : D \in SUBSET DecoKeys}] :
        /\ "tries" \in DOMAIN d.kwargs => d.kwargs["tries"] \in TriesVals
        /\ "delay" \in DOMAIN d.kwargs => d.kwargs["delay"] \in DelayVals}
\* The decoration of Client.exec_cmd_on_pod.
ExecDeco == [args |-> <<"init_clients">>,
             kwargs |-> [k \in DecoKeys |-> IF k = "tries" THEN ExecTries ELSE ExecDelay]]

NoExc == [type |-> "none", id |-> 0]
NoRet == [kind |-> "none", val |-> "none", exc |-> NoExc]

VARIABLES
    deco,       \* the arguments given to retry_on_api_exception
    tries,      \* decorator argument tries, fixed when f is decorated
    delay,      \* decorator argument delay, fixed when f is decorated
    handles,    \* Client attributes: handle name -> id of the ApiClient it was built on
    api_client, \* local of init_clients: id of the ApiClient it constructed
    nclients,   \* number of ApiClient objects constructed so far
    pc,         \* position of the caller
    i,          \* loop variable of wrapper: iterations of range(tries) completed
    exc,        \* the exception bound to e in the except clause
    ret,        \* how the last wrapped call ended
    slept,      \* seconds spent in time.sleep by the current call
    trace,      \* what the current call did, in order
    h0,         \* handles when the current call started
    ncalls,     \* wrapped calls started
    nraised,    \* runs of init_clients that raised
    parked,     \* the locals and position of the caller that is not running
    mpc,        \* position inside the running Client method (SpecApi)
    margs,      \* arguments of the running Client method
    mloc,       \* locals of the running Client method
    world,      \* the cluster the Client talks to
    sent,       \* requests the running Client method has issued, in order
    mret        \* how the last Client method call ended

\* The second caller's context.
sched == <<parked>>
\* The state of the Client methods modelled by SpecApi.
apivars == <<mpc, margs, mloc, world, sent, mret>>
\* The state of the wrapper and of init_clients.
wrapvars == <<deco, tries, delay, handles, api_client, nclients, pc, i, exc, ret,
              slept, trace, h0, ncalls, nraised>>

vars == <<wrapvars, sched, apivars>>

Event(ev, out, val, id) ==
    [ev |-> ev, out |-> out, val |-> val, id |-> id, h |-> handles]

\* An exception raised by the step that appends the next event of the trace.
NewExc(type) == [type |-> type, id |-> Len(trace) + 1]

\* Mutant of InRange: the loop runs once too often (range(tries + 1)).
InRange_OffByOne(k, n) == k <= n

\* for i in range(tries): the loop body runs while i < tries.
InRange(k, n) == k < n

\* Mutant of Caught: a bare except that catches every exception.
Caught_Any(type) == TRUE

\* except ApiException as e: the clause catches this type only.
Caught(type) == type = "ApiException"

\* Mutant of KwGet: the default of another decorator (retry's delay=3).
KwGet_OtherDefault(kw, key, default) ==
    IF key \in DOMAIN kw THEN kw[key] ELSE 3

\* kwargs.get(key, default)
KwGet(kw, key, default) ==
    IF key \in DOMAIN kw THEN kw[key] ELSE default

\* The context of a caller that has not called yet.
IdleCtx == [pc |-> "idle", i |-> 0, exc |-> NoExc, ret |-> NoRet, slept |-> 0,
            trace |-> <<>>, h0 |-> [n \in HandleNames |-> 1], api_client |-> 1]

\* No Client method of SpecApi is running.
ApiIdle ==
    /\ mpc = "idle"
    /\ margs = <<>>
    /\ mloc = <<>>
    /\ world = <<>>
    /\ sent = <<>>
    /\ mret = <<>>

\* f is decorated with one of decos, and Client.__init__ has run.
WrapperInit(decos) ==
    /\ deco \in decos
    /\ tries = KwGet(deco.kwargs, "tries", DefaultTries)
    /\ delay = KwGet(deco.kwargs, "delay", DefaultDelay)
    /\ handles = [n \in HandleNames |-> 1]
    /\ api_client = 1
    /\ nclients = 1
    /\ pc = "idle"
    /\ i = 0
    /\ exc = NoExc
    /\ ret = NoRet
    /\ slept = 0
    /\ trace = <<>>
    /\ h0 = [n \in HandleNames |-> 1]
    /\ ncalls = 0
    /\ nraised = 0
    /\ parked = IdleCtx

Init ==
    /\ WrapperInit(Decorations)
    /\ ApiIdle

\* The caller invokes the wrapped method: wrapper starts.
Call ==
    /\ pc = "idle"
    /\ ncalls < MaxCalls
    /\ ncalls' = ncalls + 1
    /\ pc' = "for"
    /\ i' = 0
    /\ exc' = NoExc
    /\ ret' = NoRet
    /\ slept' = 0
    /\ trace' = <<>>
    /\ h0' = handles
    /\ UNCHANGED <<sched, apivars, deco, nraised, tries, delay, handles, api_client, nclients>>

\* for i in range(tries): another iteration.
ForBody ==
    /\ pc = "for"
    /\ InRange(i, tries)
    /\ pc' = "try"
    /\ UNCHANGED <<sched, apivars, deco, nraised, tries, delay, handles, api_client, nclients, i, exc, ret,
                   slept, trace, h0, ncalls>>

\* Mutant of ForExhausted: the reconnect is left out, the last call follows
\* the loop directly.
ForExhausted_NoReconnect ==
    /\ pc = "for"
    /\ ~InRange(i, tries)
    /\ pc' = "final"
    /\ UNCHANGED <<sched, apivars, deco, nraised, tries, delay, handles, api_client, nclients, i, exc, ret,
                   slept, trace, h0, ncalls>>

\* for i in range(tries): the range is exhausted, control reaches init_clients().
ForExhausted ==
    /\ pc = "for"
    /\ ~InRange(i, tries)
    /\ pc' = "ic54"
    /\ trace' = Append(trace, Event("init_clients", "call", "none", 0))
    /\ UNCHANGED <<sched, apivars, deco, nraised, tries, delay, handles, api_client, nclients, i, exc, ret,
                   slept, h0, ncalls>>

\* Mutant of TryReturn: f's value is dropped (no return), control falls
\* through to the sleep.
TryReturn_FallThrough ==
    /\ pc = "try"
    /\ \E v \in Results :
        trace' = Append(trace, Event("attempt", "ok", v, 0))
    /\ pc' = "sleep"
    /\ UNCHANGED <<sched, apivars, deco, nraised, tries, delay, handles, api_client, nclients, i, exc, ret,
                   slept, h0, ncalls>>

\* return f(cls_obj, ...) inside try: f returns.
TryReturn ==
    /\ pc = "try"
    /\ \E v \in Results :
        /\ trace' = Append(trace, Event("attempt", "ok", v, 0))
        /\ ret' = [kind |-> "return", val |-> v, exc |-> NoExc]
    /\ pc' = "idle"
    /\ UNCHANGED <<sched, apivars, deco, nraised, tries, delay, handles, api_client, nclients, i, exc,
                   slept, h0, ncalls>>

\* return f(cls_obj, ...) inside try: f raises.
TryRaise ==
    /\ pc = "try"
    /\ \E t \in ExcTypes : \E r \in Reasons(t) :
        /\ trace' = Append(trace, Event("attempt", t, r, NewExc(t).id))
        /\ IF Caught(t)
             THEN /\ exc' = NewExc(t)
                  /\ pc' = "except"
                  /\ ret' = ret
             ELSE /\ exc' = exc
                  /\ pc' = "idle"
                  /\ ret' = [kind |-> "raise", val |-> "none", exc |-> NewExc(t)]
    /\ UNCHANGED <<sched, apivars, deco, nraised, tries, delay, handles, api_client, nclients, i,
                   slept, h0, ncalls>>

\* Mutant of Warning: the except clause also rebuilds the handle the
\* operation uses, on a new ApiClient.
Warning_Rebuilds ==
    /\ pc = "except"
    /\ trace' = Append(trace, Event("warning", exc.type, "none", exc.id))
    /\ nclients' = nclients + 1
    /\ handles' = [handles EXCEPT !["v1_h"] = nclients + 1]
    /\ pc' = "sleep"
    /\ UNCHANGED <<sched, apivars, deco, nraised, tries, delay, api_client, i,
                   exc, ret, slept, h0, ncalls>>

\* Mutant of Warning: the except clause passes without logging.
Warning_Silent ==
    /\ pc = "except"
    /\ pc' = "sleep"
    /\ UNCHANGED <<sched, apivars, deco, nraised, tries, delay, handles, api_client, nclients, i, exc, ret,
                   slept, trace, h0, ncalls>>

\* cls_obj.logger.warning("ApiException is caught %s. Retrying..." % e)
Warning ==
    /\ pc = "except"
    /\ trace' = Append(trace, Event("warning", exc.type, "none", exc.id))
    /\ pc' = "sleep"
    /\ UNCHANGED <<sched, apivars, deco, nraised, tries, delay, handles, api_client, nclients, i, exc, ret,
                   slept, h0, ncalls>>

\* Mutant of Sleep: no sleep after the last iteration of the loop.
Sleep_NotAfterLast ==
    /\ pc = "sleep"
    /\ IF i + 1 < tries
         THEN /\ slept' = slept + delay
              /\ trace' = Append(trace, Event("sleep", "none", "none", 0))
         ELSE UNCHANGED <<slept, trace>>
    /\ i' = i + 1
    /\ pc' = "for"
    /\ UNCHANGED <<sched, apivars, deco, nraised, tries, delay, handles, api_client, nclients, exc, ret,
                   h0, ncalls>>

\* time.sleep(delay), then back to the loop head.
Sleep ==
    /\ pc = "sleep"
    /\ slept' = slept + delay
    /\ trace' = Append(trace, Event("sleep", "none", "none", 0))
    /\ i' = i + 1
    /\ pc' = "for"
    /\ UNCHANGED <<sched, apivars, deco, nraised, tries, delay, handles, api_client, nclients, exc, ret,
                   h0, ncalls>>

\* api_client = client.ApiClient(self.cfg)
NewApiClient ==
    /\ pc = "ic54"
    /\ nclients' = nclients + 1
    /\ api_client' = nclients + 1
    /\ pc' = "ic55"
    /\ UNCHANGED <<sched, apivars, deco, nraised, tries, delay, handles, i, exc, ret, slept, trace, h0, ncalls>>

\* Mutant of SetHandle: the attribute keeps the handle it had.
SetHandle_Stale(at, name, next) ==
    /\ pc = at
    /\ pc' = next
    /\ UNCHANGED <<sched, apivars, deco, nraised, tries, delay, handles, api_client, nclients, i, exc, ret,
                   slept, trace, h0, ncalls>>

\* self.<name> = client.<Api>(api_client)
SetHandle(at, name, next) ==
    /\ pc = at
    /\ handles' = [handles EXCEPT ![name] = api_client]
    /\ pc' = next
    /\ UNCHANGED <<sched, apivars, deco, nraised, tries, delay, api_client, nclients, i, exc, ret, slept,
                   trace, h0, ncalls>>

SetResV1 == SetHandle("ic55", "res_v1_obj_h", "ic56")
SetV1 == SetHandle("ic56", "v1_h", "ic57")
SetNetworking == SetHandle("ic58", "v1_networking", "ic59")

\* self.apps_v1_h = client.AppsV1Api(api_client): init_clients returns.
SetAppsV1 ==
    /\ pc = "ic59"
    /\ handles' = [handles EXCEPT !["apps_v1_h"] = api_client]
    /\ trace' = Append(trace, [Event("init_clients", "ok", "none", 0)
                                 EXCEPT !.h = handles'])
    /\ pc' = "final"
    /\ UNCHANGED <<sched, apivars, deco, nraised, tries, delay, api_client, nclients, i, exc, ret, slept,
                   h0, ncalls>>

\* self.v1_h.read_namespace('default') answers.
ProbeOk ==
    /\ pc = "ic57"
    /\ pc' = "ic58"
    /\ UNCHANGED <<sched, apivars, deco, nraised, tries, delay, handles, api_client, nclients, i, exc, ret,
                   slept, trace, h0, ncalls>>

\* Mutant of ProbeRaise: init_clients swallows the failure of its probe and
\* goes on.
ProbeRaise_Swallowed ==
    /\ pc = "ic57"
    /\ \E t \in ExcTypes :
        trace' = Append(trace, Event("init_clients", t, "none", NewExc(t).id))
    /\ pc' = "ic58"
    /\ nraised' = nraised + 1
    /\ UNCHANGED <<sched, apivars, deco, tries, delay, handles, api_client,
                   nclients, i, exc, ret, slept, h0, ncalls>>

\* self.v1_h.read_namespace('default') raises: init_clients and wrapper
\* have no handler, the exception reaches the caller.
ProbeRaise ==
    /\ pc = "ic57"
    /\ \E t \in ExcTypes :
        /\ trace' = Append(trace, Event("init_clients", t, "none", NewExc(t).id))
        /\ ret' = [kind |-> "raise", val |-> "none", exc |-> NewExc(t)]
    /\ pc' = "idle"
    /\ nraised' = nraised + 1
    /\ UNCHANGED <<sched, apivars, deco, tries, delay, handles, api_client, nclients, i, exc,
                   slept, h0, ncalls>>

\* return f(cls_obj, ...) after init_clients: f returns.
FinalReturn ==
    /\ pc = "final"
    /\ \E v \in Results :
        /\ trace' = Append(trace, Event("attempt", "ok", v, 0))
        /\ ret' = [kind |-> "return", val |-> v, exc |-> NoExc]
    /\ pc' = "idle"
    /\ UNCHANGED <<sched, apivars, deco, nraised, tries, delay, handles, api_client, nclients, i, exc,
                   slept, h0, ncalls>>

\* Mutant of FinalRaise: the last call sits inside the try as well, so an
\* ApiException of it is caught and the loop goes on.
FinalRaise_Retried ==
    /\ pc = "final"
    /\ \E t \in ExcTypes : \E r \in Reasons(t) :
        /\ trace' = Append(trace, Event("attempt", t, r, NewExc(t).id))
        /\ IF Caught(t)
             THEN /\ exc' = NewExc(t)
                  /\ pc' = "except"
                  /\ ret' = ret
             ELSE /\ exc' = exc
                  /\ pc' = "idle"
                  /\ ret' = [kind |-> "raise", val |-> "none", exc |-> NewExc(t)]
    /\ UNCHANGED <<sched, apivars, deco, nraised, tries, delay, handles, api_client, nclients, i,
                   slept, h0, ncalls>>

\* return f(cls_obj, ...) after init_clients: f raises, outside any try.
FinalRaise ==
    /\ pc = "final"
    /\ \E t \in ExcTypes : \E r \in Reasons(t) :
        /\ trace' = Append(trace, Event("attempt", t, r, NewExc(t).id))
        /\ ret' = [kind |-> "raise", val |-> "none", exc |-> NewExc(t)]
    /\ pc' = "idle"
    /\ UNCHANGED <<sched, apivars, deco, nraised, tries, delay, handles, api_client, nclients, i, exc,
                   slept, h0, ncalls>>

Next ==
    \/ Call
    \/ ForBody
    \/ ForExhausted
    \/ TryReturn
    \/ TryRaise
    \/ Warning
    \/ Sleep
    \/ NewApiClient
    \/ SetResV1
    \/ SetV1
    \/ ProbeOk
    \/ ProbeRaise
    \/ SetNetworking
    \/ SetAppsV1
    \/ FinalReturn
    \/ FinalRaise

Spec == Init /\ [][Next]_vars

\* ---- one caller, every started statement completes ----
\* A step of a running wrapped call (every step but the caller's Call).
Advance ==
    \/ ForBody
    \/ ForExhausted
    \/ TryReturn
    \/ TryRaise
    \/ Warning
    \/ Sleep
    \/ NewApiClient
    \/ SetResV1
    \/ SetV1
    \/ ProbeOk
    \/ ProbeRaise
    \/ SetNetworking
    \/ SetAppsV1
    \/ FinalReturn
    \/ FinalRaise

\* The call is synchronous and blocking: the operation, time.sleep and the
\* API client's constructors and probe all return or raise, so a running
\* call always takes its next step.
SpecFair == Spec /\ WF_vars(Advance)

\* ---- two callers on one Client ----
MaxConcTries == 1

\* Each of the two callers invokes the wrapped method once.
ConcCall ==
    /\ ret = NoRet
    /\ Call

\* The locals and the position of the running caller.
Ctx == [pc |-> pc, i |-> i, exc |-> exc, ret |-> ret, slept |-> slept,
        trace |-> trace, h0 |-> h0, api_client |-> api_client]

\* The interpreter switches threads between two statements: the running
\* caller is parked and the other one runs on.  Client attributes and the
\* decoration are shared, the locals of wrapper and init_clients are not.
Switch ==
    /\ parked.pc # "idle" \/ parked.ret = NoRet
    /\ parked' = Ctx
    /\ pc' = parked.pc
    /\ i' = parked.i
    /\ exc' = parked.exc
    /\ ret' = parked.ret
    /\ slept' = parked.slept
    /\ trace' = parked.trace
    /\ h0' = parked.h0
    /\ api_client' = parked.api_client
    /\ UNCHANGED <<apivars, deco, tries, delay, handles, nclients, ncalls, nraised>>

ConcDecorations ==
    {d \in Decorations :
        /\ d.args = <<>>
        /\ DOMAIN d.kwargs = {"tries"}
        /\ d.kwargs["tries"] <= MaxConcTries}

ConcInit ==
    /\ WrapperInit(ConcDecorations)
    /\ ApiIdle

NextConc ==
    \/ ConcCall
    \/ ForBody
    \/ ForExhausted
    \/ TryReturn
    \/ TryRaise
    \/ Warning
    \/ Sleep
    \/ NewApiClient
    \/ SetResV1
    \/ SetV1
    \/ ProbeOk
    \/ ProbeRaise
    \/ SetNetworking
    \/ SetAppsV1
    \/ FinalReturn
    \/ FinalRaise
    \/ Switch

SpecConc == ConcInit /\ [][NextConc]_vars


\* ---- Client methods ----
MaxNameLen == 2
MaxItems == 2

\* Names are strings over a small alphabet, written as sequences of
\* characters so that "x in name" can be computed.
Alphabet == {"a", "b"}
StrUpTo(n) == UNION {[1..k -> Alphabet] : k \in 0..n}
Names == StrUpTo(MaxNameLen) \ {<<>>}
\* Python's None, for an optional name.
None == <<"None">>
OptNames == StrUpTo(MaxNameLen) \cup {None}
\* Lists of names, as an API listing returns them.
Listings == UNION {[1..k -> Names] : k \in 0..MaxItems}
\* How a request to the API server may end.
ApiOutcomes == {"ok", "ApiException", "Exception"}

\* Python truth of an optional string: None and "" are false.
Truthy(x) == x # None /\ x # <<>>

\* sub in s, for two strings.
Contains(sub, s) ==
    \E k \in 0..Len(s) :
        /\ k + Len(sub) <= Len(s)
        /\ SubSeq(s, k + 1, k + Len(sub)) = sub

NoCallRet == [kind |-> "none", exc |-> "none", val |-> <<>>]

\* -- get_replica_set --
\* Mutant of GrsKeeps: the name must equal the deployment name.
GrsKeeps_Exact(deployment, name) ==
    IF ~Truthy(deployment) THEN TRUE ELSE deployment = name

\* if not deployment: append / elif deployment in rs_obj.metadata.name: append
GrsKeeps(deployment, name) ==
    IF ~Truthy(deployment) THEN TRUE ELSE Contains(deployment, name)

\* for rs_obj in rs_objs.items: ... ret_list.append(rs_obj)
RECURSIVE GrsLoop(_, _, _)
GrsLoop(items, deployment, ret_list) ==
    IF items = <<>> THEN ret_list
    ELSE GrsLoop(Tail(items), deployment,
                 IF GrsKeeps(deployment, Head(items))
                   THEN Append(ret_list, Head(items))
                   ELSE ret_list)

\* The local rs_objs when the finally block starts: assigned by the first
\* listing, or by the fallback listing after an ApiException of the first,
\* and never assigned otherwise.
GrsBound(first, list1, second, list2) ==
    IF first = "ok" THEN [bound |-> TRUE, items |-> list1]
    ELSE IF first = "ApiException" /\ second = "ok"
      THEN [bound |-> TRUE, items |-> list2]
      ELSE [bound |-> FALSE, items |-> <<>>]

\* The requests get_replica_set issues: the fallback only after an
\* ApiException of the first listing.
GrsSent(first) ==
    IF first = "ApiException"
      THEN <<"apps_v1_h.list_namespaced_replica_set",
             "v1_networking.list_namespaced_replica_set">>
      ELSE <<"apps_v1_h.list_namespaced_replica_set">>

\* How get_replica_set ends: the finally block reads rs_objs; unbound, that
\* raises UnboundLocalError in place of whatever was pending; bound, its
\* return yields the selected replica sets.
GrsResult(first, list1, second, list2, deployment) ==
    LET rs_objs == GrsBound(first, list1, second, list2) IN
    IF rs_objs.bound
      THEN [kind |-> "return", exc |-> "none",
            val |-> GrsLoop(rs_objs.items, deployment, <<>>)]
      ELSE [kind |-> "raise", exc |-> "UnboundLocalError", val |-> <<>>]

\* The caller has a Client and has not called a method of it yet: each
\* behaviour of SpecApi follows one method call.
ApiStart == mpc = "idle" /\ margs.method = "none"

\* What a request answers: a listing when it succeeds.
Answers(outcome) == IF outcome = "ok" THEN Listings ELSE {<<>>}

\* A call of Client.get_replica_set(namespace, deployment).
GetReplicaSet ==
    /\ ApiStart
    /\ \E deployment \in OptNames, first \in ApiOutcomes :
       \E list1 \in Answers(first),
          second \in (IF first = "ApiException" THEN ApiOutcomes ELSE {"none"}) :
       \E list2 \in Answers(second) :
        /\ margs' = [method |-> "get_replica_set", deployment |-> deployment]
        /\ mloc' = [first |-> first, list1 |-> list1,
                    second |-> second, list2 |-> list2]
        /\ sent' = GrsSent(first)
        /\ mret' = GrsResult(first, list1, second, list2, deployment)
    /\ UNCHANGED <<wrapvars, sched, mpc, world>>

\* -- create_namespace --
\* A dict, as the function from its keys to their values.
EmptyDict == [k \in {} |-> "true"]
\* d[key] = value
DictSet(d, key, value) ==
    [k \in DOMAIN d \cup {key} |-> IF k = key THEN value ELSE d[k]]

\* "%s" % network_fqname, for a string.
Format(str) == str

\* body.metadata.annotations as create_namespace builds it: isolation and
\* network_fqname assign a new dict, the two ip_fabric options set a key.
NsAnnotations(isolation, ip_fabric_forwarding, ip_fabric_snat, network_fqname) ==
    LET a0 == EmptyDict
        a1 == IF isolation
                THEN DictSet(EmptyDict, "opencontrail.org/isolation", "true")
                ELSE a0
        a2 == IF ip_fabric_forwarding
                THEN DictSet(a1, "opencontrail.org/ip_fabric_forwarding", "true")
                ELSE a1
        a3 == IF ip_fabric_snat
                THEN DictSet(a2, "opencontrail.org/ip_fabric_snat", "true")
                ELSE a2
    IN  IF Truthy(network_fqname)
          THEN DictSet(EmptyDict, "opencontrail.org/network", Format(network_fqname))
          ELSE a3

\* A call of Client.create_namespace(name, isolation, ip_fabric_forwarding,
\* ip_fabric_snat, network_fqname).
CreateNamespace ==
    /\ ApiStart
    /\ \E name \in Names, isolation \in BOOLEAN, forwarding \in BOOLEAN,
          snat \in BOOLEAN, fqname \in OptNames, outcome \in ApiOutcomes :
        /\ margs' = [method |-> "create_namespace", name |-> name,
                     isolation |-> isolation, ip_fabric_forwarding |-> forwarding,
                     ip_fabric_snat |-> snat, network_fqname |-> fqname]
        /\ mloc' = [outcome |-> outcome]
        /\ sent' = <<[req |-> "v1_h.create_namespace", name |-> name,
                      annotations |-> NsAnnotations(isolation, forwarding, snat, fqname)]>>
        /\ mret' = IF outcome = "ok"
                     THEN [kind |-> "return", exc |-> "none", val |-> <<name>>]
                     ELSE [kind |-> "raise", exc |-> outcome, val |-> <<>>]
    /\ UNCHANGED <<wrapvars, sched, mpc, world>>

\* -- set_label_for_hbf_nodes --
MaxNodes == 3

master_label == "node-role.kubernetes.io/master"
hostname_label == "kubernetes.io/hostname"
\* None where a string is expected.
NoneStr == "None"
\* d.get(key)
DictGet(d, key) == IF key \in DOMAIN d THEN d[key] ELSE NoneStr

Hostnames == {"h1", "h2"}
\* node.metadata.labels of the nodes of a cluster: with or without the
\* master label, with or without a hostname label.
NodeLabels ==
    {EmptyDict, DictSet(EmptyDict, master_label, "")}
      \cup {DictSet(EmptyDict, hostname_label, h) : h \in Hostnames}
      \cup {DictSet(DictSet(EmptyDict, master_label, ""), hostname_label, h) :
                h \in Hostnames}
Nodes == [labels : NodeLabels]
NodeLists == UNION {[1..n -> Nodes] : n \in 0..MaxNodes}

\* The labels argument: None, or a dict of the caller.
LabelArgs == {"None", "given"}
HbfLabels(labels) ==
    IF labels = "None" THEN DictSet(EmptyDict, "type", "hbf")
                       ELSE DictSet(EmptyDict, "role", "compute")
\* The node_selector argument: None, or a label key.
SelectorArgs == {NoneStr, "hbf-node"}

\* master_label not in node.metadata.labels
HbfPatches_All(node) == TRUE
HbfPatches(node) == master_label \notin DOMAIN node.labels

\* The for loop of set_label_for_hbf_nodes from item k on: outcomes[k] is
\* what patch_node does for item k, labels the labels of body so far, log
\* the requests made so far.
RECURSIVE HbfLoop(_, _, _, _, _, _)
HbfLoop(items, k, outcomes, labels, node_selector, log) ==
    IF k > Len(items)
      THEN [sent |-> log, ret |-> [kind |-> "return", exc |-> "none", val |-> TRUE]]
    ELSE IF ~HbfPatches(items[k])
      THEN HbfLoop(items, k + 1, outcomes, labels, node_selector, log)
    ELSE
      LET nodename == DictGet(items[k].labels, hostname_label)
          body == IF node_selector # NoneStr
                    THEN DictSet(labels, node_selector, nodename)
                    ELSE labels
          req == [req |-> "v1_h.patch_node", idx |-> k, name |-> nodename,
                  labels |-> body, outcome |-> outcomes[k]]
      IN  CASE outcomes[k] = "ok" ->
                 HbfLoop(items, k + 1, outcomes, body, node_selector, Append(log, req))
            [] outcomes[k] = "ApiException" ->
                 [sent |-> Append(log, req),
                  ret |-> [kind |-> "return", exc |-> "none", val |-> FALSE]]
            [] OTHER ->
                 [sent |-> Append(log, req),
                  ret |-> [kind |-> "raise", exc |-> outcomes[k], val |-> <<>>]]

\* A call of Client.set_label_for_hbf_nodes(nodes_list_spec, labels,
\* node_selector); without nodes_list_spec the nodes come from list_node().
SetLabelForHbfNodes ==
    /\ ApiStart
    /\ \E given \in BOOLEAN, labels \in LabelArgs, node_selector \in SelectorArgs,
          listing \in ApiOutcomes :
        /\ given => listing = "ok"
        /\ \E items \in (IF listing = "ok" THEN NodeLists ELSE {<<>>}) :
           \E outcomes \in [1..Len(items) -> ApiOutcomes] :
           LET log == IF given THEN <<>> ELSE <<[req |-> "v1_h.list_node"]>>
               run == HbfLoop(items, 1, outcomes, HbfLabels(labels), node_selector, log)
           IN  /\ margs' = [method |-> "set_label_for_hbf_nodes", given |-> given,
                            labels |-> labels, node_selector |-> node_selector]
               /\ mloc' = [listing |-> listing, items |-> items, outcomes |-> outcomes]
               /\ sent' = IF listing = "ok" THEN run.sent ELSE log
               /\ mret' = IF listing = "ok" THEN run.ret
                          ELSE [kind |-> "raise", exc |-> listing, val |-> <<>>]
    /\ UNCHANGED <<wrapvars, sched, mpc, world>>

ApiInit ==
    /\ WrapperInit({ExecDeco})
    /\ mpc = "idle"
    /\ margs = [method |-> "none"]
    /\ mloc = <<>>
    /\ world = <<>>
    /\ sent = <<>>
    /\ mret = NoCallRet

NextApi ==
    \/ GetReplicaSet
    \/ CreateNamespace
    \/ SetLabelForHbfNodes

SpecApi == ApiInit /\ [][NextApi]_vars

\* ---- reading the trace of the current call ----
AttIdx == {p \in DOMAIN trace : trace[p].ev = "attempt"}
FailIdx(t) == {p \in AttIdx : trace[p].out = t}
OkIdx == FailIdx("ok")
WarnIdx == {p \in DOMAIN trace : trace[p].ev = "warning"}
SleepIdx == {p \in DOMAIN trace : trace[p].ev = "sleep"}
ReconnIdx == {p \in DOMAIN trace : trace[p].ev = "init_clients" /\ trace[p].out = "call"}
RebuiltIdx == {p \in DOMAIN trace : trace[p].ev = "init_clients" /\ trace[p].out = "ok"}
ReconnRaisedIdx == {p \in DOMAIN trace : trace[p].ev = "init_clients" /\ trace[p].out \in ExcTypes}

\* The number of the attempt made at position p: 1 for the first attempt.
AttNo(p) == Cardinality({q \in AttIdx : q <= p})
\* The attempts made inside the loop and the one made after init_clients.
LoopIdx == {p \in AttIdx : \A q \in ReconnIdx : p < q}
FinalIdx == {p \in AttIdx : \E q \in RebuiltIdx : q < p}

NumAttempts == Cardinality(AttIdx)
NumReconnects == Cardinality(ReconnIdx)

\* The wrapped call has returned or raised.
Finished == pc = "idle" /\ ret.kind # "none"
\* Every attempt made so far raised ApiException.
AllTransient == \A p \in AttIdx : trace[p].out = "ApiException"
\* The call ended as the event at position p ended.
EndedAs(p) ==
    /\ pc = "idle"
    /\ p = Len(trace)
    /\ IF trace[p].out = "ok"
         THEN ret = [kind |-> "return", val |-> trace[p].val, exc |-> NoExc]
         ELSE ret = [kind |-> "raise", val |-> "none",
                     exc |-> [type |-> trace[p].out, id |-> p]]

\* The attempts before position p all raised ApiException.
TransientBefore(p) == \A q \in AttIdx : q < p => trace[q].out = "ApiException"

\* ---- C1 ----
\* C1 as stated: for tries >= 1, a call whose operation raised ApiException
\* on every attempt has executed the operation exactly tries + 1 times and
\* has invoked init_clients exactly once.
C1_AsStated ==
    (Finished /\ tries >= 1 /\ AllTransient) =>
        (NumAttempts = tries + 1 /\ NumReconnects = 1)

\* C1 amended: for tries >= 1, a call whose operation raised ApiException on
\* every attempt has invoked init_clients exactly once; it has executed the
\* operation exactly tries + 1 times when init_clients returned, and exactly
\* tries times when init_clients itself raised.
C1_AlwaysTransient ==
    (Finished /\ tries >= 1 /\ AllTransient) =>
        /\ NumReconnects = 1
        /\ RebuiltIdx # {} => NumAttempts = tries + 1
        /\ RebuiltIdx = {} => (NumAttempts = tries /\ ReconnRaisedIdx # {})

C1_Witness ==
    /\ Finished /\ tries >= 2 /\ AllTransient
    /\ RebuiltIdx # {} /\ NumAttempts = tries + 1

\* ---- C2 ----
\* C2: when the operation raises ApiException on attempts 1..k-1 and returns
\* on attempt k <= tries, the operation is executed exactly k times,
\* init_clients is never invoked, and the call returns that value.
C2_SuccessWithinBound ==
    \A p \in OkIdx :
        (AttNo(p) <= tries /\ TransientBefore(p)) =>
            /\ NumAttempts = AttNo(p)
            /\ NumReconnects = 0
            /\ EndedAs(p)
            /\ ret.kind = "return"

C2_Witness ==
    /\ Finished
    /\ \E p \in OkIdx : AttNo(p) = 2 /\ AttNo(p) <= tries /\ TransientBefore(p)

\* ---- C3 ----
\* C3 as stated: an exception of the operation that is not an ApiException
\* reaches the caller unchanged and nothing follows it; raised on the first
\* attempt, the operation was attempted once and init_clients never invoked.
C3_AsStated ==
    \A p \in FailIdx("Exception") :
        /\ EndedAs(p)
        /\ AttNo(p) = 1 => (NumAttempts = 1 /\ NumReconnects = 0)

\* C3 amended: an exception of the operation that is not an ApiException
\* reaches the caller unchanged and no attempt, sleep or reconnect follows
\* it; raised on the first attempt with tries >= 1, the operation was
\* attempted once and init_clients never invoked; with tries = 0 the first
\* attempt is the one after init_clients, which was invoked once before it.
C3_NonTransient ==
    \A p \in FailIdx("Exception") :
        /\ EndedAs(p)
        /\ ret.kind = "raise"
        /\ AttNo(p) = 1 => NumAttempts = 1
        /\ (AttNo(p) = 1 /\ tries >= 1) => NumReconnects = 0
        /\ (AttNo(p) = 1 /\ tries = 0) => (NumReconnects = 1 /\ p \in FinalIdx)
        /\ p \in LoopIdx => NumReconnects = 0

C3_Witness ==
    /\ Finished /\ tries >= 1
    /\ \E p \in FailIdx("Exception") : AttNo(p) = 1

\* ---- C4 ----
\* C4: for tries >= 1, when the first tries attempts raise ApiException and
\* the attempt after init_clients returns, the call returns that value, with
\* exactly one init_clients invocation and exactly tries + 1 attempts.
C4_SuccessAfterReconnect ==
    \A p \in OkIdx :
        (tries >= 1 /\ p \in FinalIdx /\ TransientBefore(p)) =>
            /\ EndedAs(p)
            /\ ret.kind = "return"
            /\ NumReconnects = 1
            /\ NumAttempts = tries + 1

C4_Witness ==
    /\ Finished /\ tries >= 2
    /\ \E p \in OkIdx : p \in FinalIdx /\ TransientBefore(p)

\* ---- C5 ----
\* C5: the outcome of the attempt made after init_clients is the outcome of
\* the call: its value is returned, or the very exception it raised reaches
\* the caller, and no attempt, sleep or reconnect follows it.
C5_FinalOutcome ==
    \A p \in FinalIdx : EndedAs(p)

C5_Witness ==
    /\ Finished
    /\ \E p \in FinalIdx :
        /\ trace[p].out = "ApiException"
        /\ \E q \in LoopIdx : trace[q].out = "ApiException"

\* The ApiException failures of the attempts made inside the loop.
LoopFailIdx == FailIdx("ApiException") \cap LoopIdx

\* ---- C6 ----
\* C6: init_clients is invoked only after tries attempts that all raised
\* ApiException; an attempt beyond the first tries is made only after
\* init_clients has returned; and that attempt sees four handles built on
\* one ApiClient that no handle had when the call started.
C6_ReconnectOrder ==
    /\ \A r \in ReconnIdx :
        /\ Cardinality({q \in AttIdx : q < r}) = tries
        /\ TransientBefore(r)
    /\ \A p \in AttIdx : AttNo(p) > tries => p \in FinalIdx
    /\ \A p \in FinalIdx : \A n, m \in HandleNames :
        /\ trace[p].h[n] = trace[p].h[m]
        /\ trace[p].h[n] # h0[m]

C6_Witness ==
    /\ Finished /\ tries >= 2 /\ ncalls = 2
    /\ FinalIdx # {}
    /\ \E n, m \in HandleNames : h0[n] # h0[m]

\* ---- C7 ----
\* C7 as stated: with tries = 0 the operation is executed exactly once,
\* after exactly one init_clients and with no sleep and no warning; with
\* tries = 1 and an ApiException on the first attempt, one init_clients is
\* followed by exactly one more attempt.
C7_AsStated ==
    /\ (Finished /\ tries = 0) =>
        /\ NumAttempts = 1 /\ NumReconnects = 1
        /\ AttIdx = FinalIdx
        /\ SleepIdx = {} /\ WarnIdx = {}
    /\ (Finished /\ tries = 1 /\ LoopFailIdx # {}) =>
        /\ NumReconnects = 1
        /\ Cardinality(FinalIdx) = 1 /\ NumAttempts = 2

\* C7 amended: with tries = 0 exactly one init_clients is invoked, with no
\* sleep and no warning, and the operation is executed exactly once after
\* it when init_clients returns, and not at all when init_clients raises;
\* with tries = 1 and an ApiException on the first attempt, exactly one
\* init_clients is invoked, followed by exactly one more attempt when it
\* returns and by none when it raises.
C7_SmallBounds ==
    /\ (Finished /\ tries = 0) =>
        /\ NumReconnects = 1
        /\ SleepIdx = {} /\ WarnIdx = {}
        /\ AttIdx = FinalIdx
        /\ RebuiltIdx # {} => NumAttempts = 1
        /\ RebuiltIdx = {} => (NumAttempts = 0 /\ ReconnRaisedIdx # {})
    /\ (Finished /\ tries = 1 /\ LoopFailIdx # {}) =>
        /\ NumReconnects = 1
        /\ RebuiltIdx # {} => (Cardinality(FinalIdx) = 1 /\ NumAttempts = 2)
        /\ RebuiltIdx = {} => (NumAttempts = 1 /\ ReconnRaisedIdx # {})

C7_Witness ==
    /\ Finished /\ tries = 0
    /\ NumAttempts = 1 /\ RebuiltIdx # {}

\* ---- C8 ----
\* C8 as stated: when the call has ended, the number of warnings equals the
\* number of attempts that raised ApiException, the attempt after
\* init_clients included.
C8_AsStated ==
    Finished => Cardinality(WarnIdx) = Cardinality(FailIdx("ApiException"))

\* C8 amended: the call logs exactly one warning for each ApiException
\* raised by an attempt made inside the loop (the first tries attempts),
\* right after that attempt and carrying that exception; it logs nothing
\* for an attempt that returns, for an exception that is not an
\* ApiException, or for a failure of the attempt made after init_clients.
C8_Warnings ==
    /\ Finished => Cardinality(WarnIdx) = Cardinality(LoopFailIdx)
    /\ \A w \in WarnIdx :
        /\ w > 1
        /\ (w - 1) \in LoopFailIdx
        /\ trace[w].id = w - 1
    /\ \A p \in AttIdx :
        (p \in OkIdx \/ p \in FinalIdx \/ trace[p].out = "Exception") =>
            (p + 1) \notin WarnIdx

C8_Witness ==
    /\ Finished /\ tries >= 2
    /\ \E p \in FinalIdx : trace[p].out = "ApiException"
    /\ Cardinality(WarnIdx) = tries

\* ---- C9 ----
\* C9: the call sleeps delay seconds once after each ApiException raised by
\* one of its first tries attempts and at no other time: a call that
\* returns on attempt k <= tries has slept k - 1 times, a call whose first
\* tries attempts all raised ApiException has slept tries times
\* (tries * delay seconds), the last sleep right before init_clients, and
\* no sleep follows a returning attempt or the attempt after init_clients.
C9_Sleeps ==
    /\ slept = Cardinality(SleepIdx) * delay
    /\ \A s \in SleepIdx :
        /\ s > 2
        /\ trace[s - 1].ev = "warning"
        /\ (s - 2) \in LoopFailIdx
    /\ Finished => Cardinality(SleepIdx) = Cardinality(LoopFailIdx)
    /\ \A p \in OkIdx :
        AttNo(p) <= tries => Cardinality(SleepIdx) = AttNo(p) - 1
    /\ \A r \in ReconnIdx :
        /\ Cardinality(SleepIdx) = tries
        /\ slept = tries * delay
        /\ tries >= 1 => (r - 1) \in SleepIdx
    /\ (Finished /\ Cardinality(LoopFailIdx) = tries) =>
        (Cardinality(SleepIdx) = tries /\ NumReconnects = 1)
    /\ \A p \in OkIdx \cup FinalIdx : \A s \in SleepIdx : s < p

C9_Witness ==
    /\ Finished /\ tries >= 2 /\ delay >= 1
    /\ Cardinality(LoopFailIdx) = tries
    /\ slept = tries * delay
    /\ FinalIdx # {}

\* ---- C10 ----
\* C10 as stated: whenever the caller can use the Client (no wrapped call
\* is running), the four handles were built by the same run of
\* init_clients, i.e. on the same ApiClient.
C10_AsStated ==
    pc = "idle" => \A n, m \in HandleNames : handles[n] = handles[m]

\* ---- C11 ----
\* C11: when init_clients raises during a wrapped call, that very exception
\* reaches the caller and nothing follows it: init_clients was invoked
\* exactly once, it is not retried, and the operation is not attempted
\* after it, so it was attempted exactly tries times.
C11_ReconnectRaises ==
    \A r \in ReconnRaisedIdx :
        /\ EndedAs(r)
        /\ ret.kind = "raise"
        /\ NumReconnects = 1
        /\ RebuiltIdx = {}
        /\ FinalIdx = {}
        /\ NumAttempts = tries
        /\ AllTransient

C11_Witness ==
    /\ Finished /\ tries >= 2
    /\ ReconnRaisedIdx # {}
    /\ NumAttempts = tries

\* ---- C12 ----
\* Some of the handles are built on another ApiClient than the others.
Mixed(h) == \E n, m \in HandleNames : h[n] # h[m]
\* A caller at this position is inside init_clients and has replaced some
\* of the handles but not all.
MidRebuild(at) == at \in {"ic56", "ic57", "ic58", "ic59"}

\* C12: with two callers on one Client, a caller can execute its operation
\* while the other caller's init_clients has replaced only some of the
\* handles (C12_Witness is such a state).  As long as one init_clients has
\* been started and none has raised, this is the only way the handles are
\* mixed: exactly one caller is then inside init_clients.
C12_MixedDuringRebuild ==
    (nclients = 2 /\ nraised = 0 /\ Mixed(handles)) =>
        (MidRebuild(pc) # MidRebuild(parked.pc))

\* The running caller has just executed its operation on mixed handles
\* while the other caller is inside init_clients.
C12_Witness ==
    /\ nclients = 2 /\ nraised = 0
    /\ MidRebuild(parked.pc)
    /\ trace # <<>>
    /\ trace[Len(trace)].ev = "attempt"
    /\ Mixed(trace[Len(trace)].h)
    /\ trace[Len(trace)].h = handles

\* ---- C13 ----
\* The attempts that raised an ApiException reporting a permanent error.
PermanentIdx == {p \in FailIdx("ApiException") : trace[p].val = "NotFound"}

\* C13 as stated: an ApiException that reports a permanent error (not
\* found) is not retried: it reaches the caller on its first occurrence,
\* and no warning, sleep, reconnect or attempt follows it.
C13_AsStated ==
    \A p \in PermanentIdx : EndedAs(p)

\* ---- C14 ----
\* The counts of the current invocation are within their bounds, and an
\* invocation that reconnects has made exactly tries attempts before,
\* whatever the earlier invocations did.
C14_Counts ==
    /\ NumAttempts <= tries + 1
    /\ Cardinality(SleepIdx) <= tries
    /\ NumReconnects <= 1
    /\ i <= tries
    /\ Cardinality(LoopIdx) <= tries
    /\ trace = <<>> => i = 0
    /\ \A r \in ReconnIdx : Cardinality({q \in AttIdx : q < r}) = tries

\* C14: every invocation ends (returns or raises), after at most tries + 1
\* attempts, at most tries sleeps and at most one init_clients; the counts
\* start afresh at every invocation.
C14_Terminates ==
    /\ [](C14_Counts)
    /\ (pc # "idle") ~> (pc = "idle")

\* A second invocation that used its full budget after a first invocation
\* that had reconnected too.
C14_Witness ==
    /\ Finished /\ ncalls = 2 /\ nclients >= 3 /\ tries >= 2
    /\ NumAttempts = tries + 1
    /\ Cardinality(SleepIdx) = tries

\* ---- C15 ----
\* C15: as long as the invocation has not reached init_clients, the four
\* handles are the ones the Client had when the invocation started; so an
\* invocation that ends within its first tries attempts leaves them
\* unchanged, and a handle that changed was replaced by init_clients, after
\* tries attempts that all raised ApiException.
C15_HandlesFrame ==
    /\ ReconnIdx = {} => handles = h0
    /\ (Finished /\ FinalIdx = {} /\ ReconnRaisedIdx = {}) => handles = h0
    /\ handles # h0 =>
        /\ ReconnIdx # {}
        /\ Cardinality(LoopFailIdx) = tries
        /\ \A n \in HandleNames : handles[n] # h0[n] => handles[n] = api_client

C15_Witness ==
    /\ Finished /\ tries >= 2 /\ ncalls = 2
    /\ ReconnIdx = {}
    /\ NumAttempts = tries
    /\ Mixed(handles)

\* ---- C16 ----
\* The decorator is given no such keyword.
NoKw(key) == key \notin DOMAIN deco.kwargs

\* C16 as stated: without a tries (delay) keyword the attempt bound (the
\* delay) is 5, whatever the positional arguments; exec_cmd_on_pod runs
\* with tries = 5 and delay = 5, so when its operation raises ApiException
\* every time it is executed exactly 6 times, with exactly one
\* init_clients between the 5th and the 6th execution.
C16_AsStated ==
    /\ NoKw("tries") => tries = 5
    /\ NoKw("delay") => delay = 5
    /\ deco = ExecDeco => (tries = 5 /\ delay = 5)
    /\ (deco = ExecDeco /\ Finished /\ AllTransient) =>
        /\ NumAttempts = 6
        /\ NumReconnects = 1
        /\ \A r \in ReconnIdx : Cardinality({q \in AttIdx : q < r}) = 5

\* C16 amended: the defaults and the decoration of exec_cmd_on_pod are as
\* stated; when its operation raises ApiException every time, init_clients
\* is invoked exactly once, after the 5th execution, and the operation is
\* executed a 6th time when init_clients returns and exactly 5 times when
\* init_clients raises.
C16_Defaults ==
    /\ NoKw("tries") => tries = 5
    /\ NoKw("delay") => delay = 5
    /\ deco = ExecDeco => (tries = 5 /\ delay = 5)
    /\ (deco = ExecDeco /\ Finished /\ AllTransient) =>
        /\ NumReconnects = 1
        /\ \A r \in ReconnIdx : Cardinality({q \in AttIdx : q < r}) = 5
        /\ RebuiltIdx # {} => (NumAttempts = 6 /\ Cardinality(FinalIdx) = 1)
        /\ RebuiltIdx = {} => (NumAttempts = 5 /\ ReconnRaisedIdx # {})

\* A call decorated with positional arguments only that used the default
\* bound to the full.
C16_Witness ==
    /\ deco.args # <<>> /\ NoKw("tries") /\ NoKw("delay")
    /\ Finished /\ AllTransient
    /\ NumAttempts = 6
    /\ slept = 25

\* ---- C17 ----
\* The positions of a listing that get_replica_set is to keep.
KeptIdx(items, deployment) ==
    {k \in DOMAIN items : ~Truthy(deployment) \/ Contains(deployment, items[k])}
\* val is what is left of items when only the positions in keep are kept.
IsSelection(val, items, keep) ==
    /\ Len(val) = Cardinality(keep)
    /\ \A j \in DOMAIN val :
        \E k \in keep :
            /\ Cardinality({m \in keep : m <= k}) = j
            /\ val[j] = items[k]

\* C17: when the first listing raises ApiException and the fallback fails
\* too, get_replica_set ends in an UnboundLocalError, whatever the fallback
\* raised, and returns no list; when the first listing succeeds it returns
\* exactly the listed replica sets whose name contains the deployment name
\* (all of them when no deployment is given), in listing order.
C17_GetReplicaSet ==
    margs.method = "get_replica_set" =>
        /\ (mloc.first = "ApiException" /\ mloc.second # "ok") =>
            /\ mret.kind = "raise"
            /\ mret.exc = "UnboundLocalError"
            /\ Len(sent) = 2
        /\ mloc.first = "ok" =>
            /\ mret.kind = "return"
            /\ IsSelection(mret.val, mloc.list1,
                           KeptIdx(mloc.list1, margs.deployment))
            /\ Len(sent) = 1

\* Both listings failed.
C17_Witness ==
    /\ margs.method = "get_replica_set"
    /\ mloc.first = "ApiException" /\ mloc.second = "ApiException"
    /\ mret.kind = "raise"

\* -- delete_replica_set, step by step --
MaxPods == 1
\* @retry(delay=3, tries=20) on wait_till_pod_cleanup
WaitTries == 20
WaitDelay == 3

\* The pods a namespace may hold when the call starts.
PodSets == {P \in SUBSET Names : Cardinality(P) <= MaxPods}

\* get_pods_list(namespace, replica_set): the pods whose name contains the
\* name of the replica set.
GetPodsList(pods, replica_set) == {pod \in pods : Contains(replica_set, pod)}

\* The body of wait_till_pod_cleanup: True when no pod of the replica set
\* is listed.
WaitTillPodCleanup(pods, replica_set) == GetPodsList(pods, replica_set) = {}

\* tcutils.util.retry: the decorated function is called again, delay
\* seconds apart, while it returns False; once it has been called tries
\* times the False is handed to the caller.
RetryGivesUp(polls) == polls >= WaitTries

Raised(type) == [kind |-> "raise", exc |-> type, val |-> <<>>]

DrsInit ==
    /\ WrapperInit({ExecDeco})
    /\ mpc = "idle"
    /\ margs = [method |-> "none"]
    /\ mloc = [rs_objs |-> <<>>, k |-> 0, polls |-> 0, slept |-> 0]
    /\ \E pods \in PodSets : world = [replicas |-> 1, pods |-> pods]
    /\ sent = <<>>
    /\ mret = NoCallRet

\* delete_replica_set(namespace, deployment) is called.
DrsCall ==
    /\ ApiStart
    /\ \E deployment \in OptNames :
        margs' = [method |-> "delete_replica_set", deployment |-> deployment]
    /\ mpc' = "set_replicas"
    /\ UNCHANGED <<wrapvars, sched, mloc, world, sent, mret>>

\* self.set_deployment_replicas(namespace, deployment, 0): the deployment
\* is read and patched with replicas = 0; either request may raise.
DrsSetReplicas ==
    /\ mpc = "set_replicas"
    /\ \E read \in ApiOutcomes :
       \E patch \in (IF read = "ok" THEN ApiOutcomes ELSE {"none"}) :
       LET reads == Append(sent, [req |-> "apps_v1_h.read_namespaced_deployment",
                                  outcome |-> read])
           patches == Append(reads, [req |-> "apps_v1_h.patch_namespaced_deployment",
                                     replicas |-> 0, outcome |-> patch])
       IN  /\ sent' = IF read = "ok" THEN patches ELSE reads
           /\ world' = IF patch = "ok" THEN [world EXCEPT !.replicas = 0] ELSE world
           /\ mpc' = IF patch = "ok" THEN "get_rs" ELSE "done"
           /\ mret' = IF patch = "ok" THEN mret
                      ELSE Raised(IF read = "ok" THEN patch ELSE read)
    /\ UNCHANGED <<wrapvars, sched, margs, mloc>>

\* rs_objs = self.get_replica_set(namespace, deployment)
DrsGetReplicaSet ==
    /\ mpc = "get_rs"
    /\ \E first \in ApiOutcomes :
       \E list1 \in Answers(first),
          second \in (IF first = "ApiException" THEN ApiOutcomes ELSE {"none"}) :
       \E list2 \in Answers(second) :
       LET res == GrsResult(first, list1, second, list2, margs.deployment)
           reqs == GrsSent(first)
       IN  /\ sent' = sent \o [j \in 1..Len(reqs) |-> [req |-> reqs[j]]]
           /\ IF res.kind = "return"
                THEN /\ mloc' = [mloc EXCEPT !.rs_objs = res.val, !.k = 1]
                     /\ mpc' = "loop"
                     /\ mret' = mret
                ELSE /\ mloc' = mloc
                     /\ mpc' = "done"
                     /\ mret' = res
    /\ UNCHANGED <<wrapvars, sched, margs, world>>

\* for rs_obj in rs_objs: the next replica set, or the end of the call.
DrsLoop ==
    /\ mpc = "loop"
    /\ IF mloc.k > Len(mloc.rs_objs)
         THEN /\ mpc' = "done"
              /\ mret' = [kind |-> "return", exc |-> "none", val |-> None]
              /\ mloc' = mloc
         ELSE /\ mpc' = "wait"
              /\ mret' = mret
              /\ mloc' = [mloc EXCEPT !.polls = 0]
    /\ UNCHANGED <<wrapvars, sched, margs, world, sent>>

\* One call of wait_till_pod_cleanup(namespace, name) under its retry
\* decorator: on True the wait ends, on False it is repeated after the
\* delay until the decorator gives up; delete_replica_set does not look at
\* the value returned.
DrsPoll ==
    /\ mpc = "wait"
    /\ LET name == mloc.rs_objs[mloc.k]
           clean == WaitTillPodCleanup(world.pods, name)
           polls == mloc.polls + 1
       IN  /\ sent' = Append(sent, [req |-> "v1_h.list_namespaced_pod"])
           /\ IF clean \/ RetryGivesUp(polls)
                THEN /\ mpc' = "delete"
                     /\ mloc' = [mloc EXCEPT !.polls = polls]
                ELSE /\ mpc' = "wait"
                     /\ mloc' = [mloc EXCEPT !.polls = polls,
                                             !.slept = mloc.slept + WaitDelay]
    /\ UNCHANGED <<wrapvars, sched, margs, world, mret>>

\* self.apps_v1_h.delete_namespaced_replica_set(name, namespace); pods
\* records the pods of the namespace at that moment.
DrsDelete ==
    /\ mpc = "delete"
    /\ \E outcome \in ApiOutcomes :
        /\ sent' = Append(sent, [req |-> "apps_v1_h.delete_namespaced_replica_set",
                                 name |-> mloc.rs_objs[mloc.k],
                                 pods |-> world.pods, outcome |-> outcome])
        /\ IF outcome = "ok"
             THEN /\ mpc' = "loop"
                  /\ mloc' = [mloc EXCEPT !.k = mloc.k + 1]
                  /\ mret' = mret
             ELSE /\ mpc' = "done"
                  /\ mloc' = mloc
                  /\ mret' = Raised(outcome)
    /\ UNCHANGED <<wrapvars, sched, margs, world>>

\* The cluster: a pod of the namespace terminates while the call runs.
PodGone ==
    /\ mpc \notin {"idle", "done"}
    /\ \E pod \in world.pods : world' = [world EXCEPT !.pods = world.pods \ {pod}]
    /\ UNCHANGED <<wrapvars, sched, mpc, margs, mloc, sent, mret>>

NextDrs ==
    \/ DrsCall
    \/ DrsSetReplicas
    \/ DrsGetReplicaSet
    \/ DrsLoop
    \/ DrsPoll
    \/ DrsDelete
    \/ PodGone

SpecDrs == DrsInit /\ [][NextDrs]_vars

\* ---- C18 ----
\* The positions in sent of requests of this kind.
ReqIdx(req) == {p \in 1..Len(sent) : sent[p].req = req}
\* Every listing or deletion of replica sets comes after a patch of the
\* deployment to 0 replicas that went through.
ReplicasZeroFirst ==
    \A p \in ReqIdx("apps_v1_h.list_namespaced_replica_set")
            \cup ReqIdx("v1_networking.list_namespaced_replica_set")
            \cup ReqIdx("apps_v1_h.delete_namespaced_replica_set") :
        \E q \in ReqIdx("apps_v1_h.patch_namespaced_deployment") :
            q < p /\ sent[q].replicas = 0 /\ sent[q].outcome = "ok"
\* No pod matching the replica set is left when its deletion is issued.
DeletedWhenClean ==
    \A p \in ReqIdx("apps_v1_h.delete_namespaced_replica_set") :
        GetPodsList(sent[p].pods, sent[p].name) = {}

\* C18 as stated: delete_replica_set sets the replicas of the deployment
\* to 0 before it lists or deletes any replica set, and when it issues the
\* deletion of a replica set no pod matching that replica set remains.
C18_AsStated == ReplicasZeroFirst /\ DeletedWhenClean

\* ---- C19 ----
\* The annotations hold key with this value.
Annotated(a, key, value) == key \in DOMAIN a /\ a[key] = value

\* C19 as stated: for every combination of the options, the annotations of
\* the body sent to the API hold the annotation of each enabled option and
\* of no disabled one.
C19_AsStated ==
    margs.method = "create_namespace" =>
        LET a == sent[1].annotations IN
        /\ margs.isolation <=> Annotated(a, "opencontrail.org/isolation", "true")
        /\ margs.ip_fabric_forwarding <=>
            Annotated(a, "opencontrail.org/ip_fabric_forwarding", "true")
        /\ margs.ip_fabric_snat <=>
            Annotated(a, "opencontrail.org/ip_fabric_snat", "true")
        /\ Truthy(margs.network_fqname) <=>
            Annotated(a, "opencontrail.org/network", margs.network_fqname)
        /\ ~Truthy(margs.network_fqname) =>
            "opencontrail.org/network" \notin DOMAIN a

\* ---- C20 ----
\* The positions in sent of the patch_node requests.
PatchIdx == {p \in 1..Len(sent) : sent[p].req = "v1_h.patch_node"}
\* The positions in the node list of the nodes without the master label.
Workers == {k \in 1..Len(mloc.items) : master_label \notin DOMAIN mloc.items[k].labels}
\* The node at position k was patched without error.
PatchedOk(k) == \E p \in PatchIdx : sent[p].idx = k /\ sent[p].outcome = "ok"
\* The first node whose patch raises ApiException after clean patches only.
FirstApiFailure(k) ==
    /\ k \in Workers
    /\ mloc.outcomes[k] = "ApiException"
    /\ \A j \in Workers : j < k => mloc.outcomes[j] = "ok"

\* C20: set_label_for_hbf_nodes never patches a node with the master label,
\* patches the others in list order and each at most once, returns False at
\* the first patch that raises ApiException with no patch of a later node,
\* and returns True exactly when every node without the master label was
\* patched without error.
C20_HbfLabels ==
    (margs.method = "set_label_for_hbf_nodes" /\ mloc.listing = "ok") =>
        /\ \A p \in PatchIdx : sent[p].idx \in Workers
        /\ \A p, q \in PatchIdx : p < q => sent[p].idx < sent[q].idx
        /\ \A k \in Workers : FirstApiFailure(k) =>
            /\ mret = [kind |-> "return", exc |-> "none", val |-> FALSE]
            /\ \A p \in PatchIdx : sent[p].idx <= k
            /\ \E p \in PatchIdx : sent[p].idx = k
        /\ (mret.kind = "return" /\ mret.val = FALSE) => \E k \in Workers : FirstApiFailure(k)
        /\ (mret.kind = "return" /\ mret.val = TRUE) <=> (\A k \in Workers : PatchedOk(k))

\* A list with a master node between two others: the first patch is clean,
\* the second raises ApiException and the call returns False.
C20_Witness ==
    /\ margs.method = "set_label_for_hbf_nodes"
    /\ mloc.listing = "ok"
    /\ \E k \in Workers : FirstApiFailure(k) /\ \E j \in Workers : j < k
    /\ Workers # 1..Len(mloc.items)
    /\ mret.kind = "return" /\ mret.val = FALSE

=============================================================================
